---- MODULE Spec2Model ----
\* A state-machine model of uws.js: the Connection objects (WebSocket and
\* WebSocketClient), their event slots, the process.nextTick queue, and the
\* Server with its upgrade listener, handleUpgrade and close.
EXTENDS Integers, Sequences, FiniteSets, TLC

\* ---------------------------------------------------------------- bounds
NumCallbacks == 1       \* user callback functions f1, f2 that may be registered
MaxEngineEvents == 2    \* engine events (open, message, ping, pong, ...) per connection
MaxPending == 2         \* send completions waiting in the engine or the tick queue
MaxLog == 3             \* handler invocations kept in the delivery log
NumReqs == 2            \* upgrade requests
MaxTimers == 1          \* pending Server.close(cb) timers per server

\* ---------------------------------------------------------------- constants
OPEN == 1
CLOSED == 0
KEY_LENGTH == 24

Callbacks == 1..NumCallbacks
NULL == "null"
HANDLE == "external"
SERVER == "server"
CLIENT == "client"

\* The five slots every WebSocket has, and the sixth of the client variant.
Events5 == {"message", "open", "close", "ping", "pong"}
Events == Events5 \cup {"error"}
NoEvent == "-"

\* Values of an event slot: the module's noop, a property never assigned, a
\* user function stored as it is (on), or the closure once() builds around it.
NOOP == [k |-> "noop", f |-> 0]
UNDEF == [k |-> "undefined", f |-> 0]
Fn(f) == [k |-> "fn", f |-> f]
OnceWrap(f) == [k |-> "once", f |-> f]
SlotValues == {NOOP, UNDEF} \cup {Fn(f) : f \in Callbacks} \cup {OnceWrap(f) : f \in Callbacks}

VARIABLES
    \* ---- one Connection object
    variant,        \* SERVER (class WebSocket) or CLIENT (class WebSocketClient)
    external,       \* this.external: HANDLE or NULL
    slots,          \* internalOnMessage, internalOnOpen, internalOnClose, onping, onpong, internalOnError
    engState,       \* the engine's view of the socket
    userData,       \* the engine's user-data association handle -> Connection
    engSeq,         \* number of events the engine has observed on the socket
    pendingSendCb,  \* completion wrappers the engine still holds
    tickQueue,      \* process.nextTick queue
    delivered,      \* log of slot invocations
    cbLog,          \* log of send() completion callback invocations
    lastCall,       \* the last API call and what it did
    closeCalled,    \* close() or terminate() was called, or the engine reported the disconnection
    \* ---- servers and handshakes
    srv,            \* per server: the Server object's fields and its http server
    reqs,           \* per upgrade request: attributes and handshake phase
    upgradeReq,     \* module-level _upgradeReq
    engPending,     \* connections the engine has accepted but not yet reported
    connEvents,     \* log of 'connection' events emitted by servers
    srvCall         \* the last Server API call and what it did

connVars == <<variant, external, slots, engState, userData, engSeq, pendingSendCb,
              tickQueue, delivered, cbLog, lastCall, closeCalled>>
srvVars == <<srv, reqs, upgradeReq, engPending, connEvents, srvCall>>
vars == <<variant, external, slots, engState, userData, engSeq, pendingSendCb,
          tickQueue, delivered, cbLog, lastCall, closeCalled,
          srv, reqs, upgradeReq, engPending, connEvents, srvCall>>

\* ---------------------------------------------------------------- Connection

\* get readyState()
readyState == IF external # NULL THEN OPEN ELSE CLOSED

\* What an API call did: the operation, its event argument (for send: which
\* callback arguments it was given) and callback argument, the slot value it
\* found, whether it threw, the engine entry point it called ("none" if it
\* called none) and whether the engine still had the socket then, and the send
\* callback it invoked before returning.
Call(op, ev, f, before, threw, eng, inline) ==
    [op |-> op, ev |-> ev, f |-> f, before |-> before, threw |-> threw,
     eng |-> eng, live |-> (eng = "none" \/ engState = "open"), inline |-> inline]
NoCall == Call("none", NoEvent, 0, NOOP, FALSE, "none", "none")

\* The engine namespace a variant calls: native.server.* or native.client.*
EngineEntry(v, op) == v \o "." \o op

\* constructor(external): the slots a new WebSocket has. internalOnOpen and
\* internalOnError are assigned by the WebSocketClient constructor only.
NewSlots(v) ==
    [e \in Events |->
        IF e \in {"message", "close", "ping", "pong"} THEN NOOP
        ELSE IF v = CLIENT THEN NOOP ELSE UNDEF]

\* ---- event registration

\* on(eventName, f): the branches on() has. The error branch exists for
\* instances of WebSocketClient only.
OnHasBranch(v, ev) == ev \in Events5 \/ (ev = "error" /\ v = CLIENT)

\* on(): `if (this.<slot> !== noop) throw Error(EE_ERROR)`
OnThrows(v, s, ev) == OnHasBranch(v, ev) /\ s[ev] # NOOP

\* on(): `this.<slot> = f` when the branch exists and did not throw
OnSlots(v, s, ev, f) ==
    IF OnHasBranch(v, ev) /\ s[ev] = NOOP THEN [s EXCEPT ![ev] = Fn(f)] ELSE s

\* once(eventName, f): the branches once() has (none for error).
OnceHasBranch(ev) == ev \in Events5

\* once(): `if (this.<slot> !== noop) throw Error(EE_ERROR)`
OnceThrows(s, ev) == OnceHasBranch(ev) /\ s[ev] # NOOP

\* once(): the slot receives a new closure that resets the slot and calls f
OnceSlots(s, ev, f) ==
    IF OnceHasBranch(ev) /\ s[ev] = NOOP THEN [s EXCEPT ![ev] = OnceWrap(f)] ELSE s

\* removeAllListeners(eventName): ev = NoEvent is the call without an argument
RemoveAllSlots(s, ev) ==
    [e \in Events |-> IF e \in Events5 /\ (ev = NoEvent \/ ev = e) THEN NOOP ELSE s[e]]

\* removeListener(eventName, cb): `this.<slot> === cb`
RemoveSlots(s, ev, cb) ==
    IF ev \in Events5 /\ s[ev] = Fn(cb) THEN [s EXCEPT ![ev] = NOOP] ELSE s

\* Calling the function held by a slot: a once() closure first resets the slot.
InvokeSlots(s, ev) == IF s[ev].k = "once" THEN [s EXCEPT ![ev] = NOOP] ELSE s

\* The log entry of calling a slot for engine event number n: the function
\* reached (0 for noop), from where the slot was called (inside an engine
\* callback, from a tick, or by emit), whether the arguments reached it, and
\* what readyState and the engine's user data were then. The once() closures
\* of message and close pass their arguments on; those of open, ping and pong
\* call f().
InvokeRec(s, ev, n, src, ext) ==
    [ev |-> ev, n |-> n, to |-> s[ev].f, src |-> src,
     args |-> (s[ev].k # "once" \/ ev \in {"message", "close"}),
     ready |-> (IF ext # NULL THEN OPEN ELSE CLOSED), assoc |-> userData]

On(ev, f) ==
    /\ lastCall' = Call("on", ev, f, slots[ev], OnThrows(variant, slots, ev), "none", "none")
    /\ slots' = IF OnThrows(variant, slots, ev) THEN slots ELSE OnSlots(variant, slots, ev, f)
    /\ UNCHANGED <<variant, external, engState, userData, engSeq, pendingSendCb,
                   tickQueue, delivered, cbLog, closeCalled>>
    /\ UNCHANGED srvVars

Once(ev, f) ==
    /\ lastCall' = Call("once", ev, f, slots[ev], OnceThrows(slots, ev), "none", "none")
    /\ slots' = IF OnceThrows(slots, ev) THEN slots ELSE OnceSlots(slots, ev, f)
    /\ UNCHANGED <<variant, external, engState, userData, engSeq, pendingSendCb,
                   tickQueue, delivered, cbLog, closeCalled>>
    /\ UNCHANGED srvVars

RemoveAllListeners(ev) ==
    /\ lastCall' = Call("removeAllListeners", ev, 0,
                        IF ev = NoEvent THEN NOOP ELSE slots[ev], FALSE, "none", "none")
    /\ slots' = RemoveAllSlots(slots, ev)
    /\ UNCHANGED <<variant, external, engState, userData, engSeq, pendingSendCb,
                   tickQueue, delivered, cbLog, closeCalled>>
    /\ UNCHANGED srvVars

RemoveListener(ev, cb) ==
    /\ lastCall' = Call("removeListener", ev, cb, slots[ev], FALSE, "none", "none")
    /\ slots' = RemoveSlots(slots, ev, cb)
    /\ UNCHANGED <<variant, external, engState, userData, engSeq, pendingSendCb,
                   tickQueue, delivered, cbLog, closeCalled>>
    /\ UNCHANGED srvVars

\* emit(eventName, arg1, arg2): calls the slot of message, close, ping or pong
Emit(ev) ==
    /\ Len(delivered) < MaxLog
    /\ lastCall' = Call("emit", ev, 0, slots[ev], FALSE, "none", "none")
    /\ IF ev \in {"message", "close", "ping", "pong"}
       THEN /\ delivered' = Append(delivered, InvokeRec(slots, ev, engSeq, "emit", external))
            /\ slots' = InvokeSlots(slots, ev)
       ELSE UNCHANGED <<delivered, slots>>
    /\ UNCHANGED <<variant, external, engState, userData, engSeq, pendingSendCb,
                   tickQueue, cbLog, closeCalled>>
    /\ UNCHANGED srvVars

\* ---- the process.nextTick queue

TickClose(n) == [k |-> "close", n |-> n, cb |-> "none"]
TickError(n) == [k |-> "error", n |-> n, cb |-> "none"]
TickSendCb(cb) == [k |-> "sendcb", n |-> 0, cb |-> cb]

\* Entries of cbLog: a send() completion callback was called, inside send()
\* ("inline") or from the tick queue ("tick"), with or without an Error.
CbCall(cb, when, err) == [cb |-> cb, when |-> when, err |-> err]

\* ---- send, ping, close, terminate

\* send(message, options, cb, compress) on an open Connection: `cb = options`
\* when options is a function; optFn says the second argument is a function,
\* cb3 that the third is.
SendCallback(optFn, cb3) == IF optFn THEN "opt" ELSE IF cb3 THEN "third" ELSE "none"

\* Which callback arguments a send() call was given.
SendArgs(optFn, cb3) ==
    IF optFn /\ cb3 THEN "both" ELSE IF optFn THEN "opt" ELSE IF cb3 THEN "third" ELSE NoEvent

\* A wrapper that calls cb itself instead of handing it to process.nextTick.
SendWrapperDirect(cb, where) == <<tickQueue, cbLog \cup {CbCall(cb, where, FALSE)}>>

\* The wrapper send() hands to the engine: `() => { process.nextTick(cb); }`.
\* Calling it (inside send() or from an engine callback, where) appends cb to
\* the tick queue; it does not call cb. The new <<tickQueue, cbLog>>.
SendWrapper(cb, where) == <<Append(tickQueue, TickSendCb(cb)), cbLog>>

\* `if (this.external)` of send, ping, close and terminate
HasHandle(ext) == ext # NULL

\* send(): the engine may call the wrapper before native.*.send returns
\* (engineInline) or keep it until the data is written.
Send(optFn, cb3, engineInline) ==
    /\ IF HasHandle(external)
       THEN LET cb == SendCallback(optFn, cb3) IN
            /\ cb # "none" => Len(pendingSendCb) + Len(tickQueue) < MaxPending
            /\ lastCall' = Call("send", SendArgs(optFn, cb3), 0, NOOP, FALSE,
                                EngineEntry(variant, "send"), "none")
            /\ IF cb = "none"
               THEN UNCHANGED <<tickQueue, pendingSendCb, cbLog>>
               ELSE IF engineInline
                    THEN /\ tickQueue' = SendWrapper(cb, "inline")[1]
                         /\ cbLog' = SendWrapper(cb, "inline")[2]
                         /\ UNCHANGED pendingSendCb
                    ELSE /\ pendingSendCb' = Append(pendingSendCb, cb)
                         /\ UNCHANGED <<tickQueue, cbLog>>
       ELSE /\ engineInline = FALSE
            /\ IF cb3
               THEN \* `cb(new Error('not opened'))`
                    /\ cbLog' = cbLog \cup {CbCall("third", "inline", TRUE)}
                    /\ lastCall' = Call("send", SendArgs(optFn, cb3), 0, NOOP, FALSE,
                                        "none", "third")
               ELSE /\ UNCHANGED cbLog
                    /\ lastCall' = Call("send", SendArgs(optFn, cb3), 0, NOOP, FALSE,
                                        "none", "none")
            /\ UNCHANGED <<tickQueue, pendingSendCb>>
    /\ UNCHANGED <<variant, external, slots, engState, userData, engSeq, delivered, closeCalled>>
    /\ UNCHANGED srvVars

\* ping(message, options, dontFailWhenClosed)
Ping ==
    /\ lastCall' = Call("ping", NoEvent, 0, NOOP, FALSE,
                        IF HasHandle(external) THEN EngineEntry(variant, "send") ELSE "none",
                        "none")
    /\ UNCHANGED <<variant, external, slots, engState, userData, engSeq, pendingSendCb,
                   tickQueue, delivered, cbLog, closeCalled>>
    /\ UNCHANGED srvVars

\* An onDisconnection that clears the user data and schedules the close slot
\* but forgets `webSocket.external = null`.
OnDisconnectionHandleKept(q, n) == <<external, Append(q, TickClose(n)), FALSE>>

\* An onDisconnection that schedules the close slot twice.
OnDisconnectionTwice(q, n) == <<NULL, Append(Append(q, TickClose(n)), TickClose(n)), FALSE>>

\* The group's onDisconnection callback (the server group's and the client
\* group's are the same code): `webSocket.external = null`, the close slot is
\* called from process.nextTick, then native.clearUserData(external).
\* Returns the new <<external, tickQueue, userData>>.
OnDisconnection(q, n) == <<NULL, Append(q, TickClose(n)), FALSE>>

\* A close() or terminate() that forgets `this.external = null`.
ShutdownHandleKept(ext) == ext

\* `this.external = null` at the end of close() and terminate(): the handle
\* the Connection keeps, given the one it had when the engine call returned.
ShutdownHandle(ext) == NULL

\* close(code, data) and terminate() have the same shape: with a handle, the
\* engine entry is called and `this.external = null`. The engine may report the
\* disconnection from inside that call (engineInline) or later.
Shutdown(op, engineInline) ==
    /\ closeCalled' = TRUE
    /\ IF HasHandle(external)
       THEN /\ lastCall' = Call(op, NoEvent, 0, NOOP, FALSE, EngineEntry(variant, op), "none")
            /\ external' = ShutdownHandle(IF engineInline
                                          THEN OnDisconnection(tickQueue, engSeq + 1)[1]
                                          ELSE external)
            /\ IF engineInline
               THEN /\ engState' = "dead"
                    /\ engSeq' = engSeq + 1
                    /\ tickQueue' = OnDisconnection(tickQueue, engSeq + 1)[2]
                    /\ userData' = OnDisconnection(tickQueue, engSeq + 1)[3]
               ELSE /\ engState' = "closing"
                    /\ UNCHANGED <<engSeq, tickQueue, userData>>
       ELSE /\ engineInline = FALSE
            /\ lastCall' = Call(op, NoEvent, 0, NOOP, FALSE, "none", "none")
            /\ UNCHANGED <<external, engState, engSeq, tickQueue, userData>>
    /\ UNCHANGED <<variant, slots, pendingSendCb, delivered, cbLog>>
    /\ UNCHANGED srvVars

Close(engineInline) == Shutdown("close", engineInline)

Terminate(engineInline) == Shutdown("terminate", engineInline)

\* ---- engine callbacks (they run as loop events, with the tick queue drained)

\* An onConnection that calls internalOnOpen before it assigns the handle.
EngineConnectionOpenFirst ==
    /\ variant = CLIENT /\ engState = "connecting" /\ tickQueue = <<>>
    /\ engSeq < MaxEngineEvents
    /\ engState' = "open"
    /\ engSeq' = engSeq + 1
    /\ external' = HANDLE
    /\ delivered' = Append(delivered,
                           InvokeRec(slots, "open", engSeq + 1, "callback", external))
    /\ slots' = InvokeSlots(slots, "open")
    /\ lastCall' = NoCall
    /\ UNCHANGED <<variant, userData, pendingSendCb, tickQueue, cbLog, closeCalled>>
    /\ UNCHANGED srvVars

\* client group onConnection: `webSocket.external = external;
\* webSocket.internalOnOpen()`
EngineConnection ==
    /\ variant = CLIENT /\ engState = "connecting" /\ tickQueue = <<>>
    /\ engSeq < MaxEngineEvents
    /\ engState' = "open"
    /\ engSeq' = engSeq + 1
    /\ external' = HANDLE
    /\ delivered' = Append(delivered,
                           InvokeRec(slots, "open", engSeq + 1, "callback", HANDLE))
    /\ slots' = InvokeSlots(slots, "open")
    /\ lastCall' = NoCall
    /\ UNCHANGED <<variant, userData, pendingSendCb, tickQueue, cbLog, closeCalled>>
    /\ UNCHANGED srvVars

\* client group onError: internalOnError is called from process.nextTick
EngineError ==
    /\ variant = CLIENT /\ engState = "connecting" /\ tickQueue = <<>>
    /\ engSeq < MaxEngineEvents
    /\ engState' = "failed"
    /\ engSeq' = engSeq + 1
    /\ tickQueue' = Append(tickQueue, TickError(engSeq + 1))
    /\ lastCall' = NoCall
    /\ UNCHANGED <<variant, external, slots, userData, pendingSendCb, delivered, cbLog, closeCalled>>
    /\ UNCHANGED srvVars

\* onMessage, onPing, onPong of either group: the slot is called at once with
\* the Connection the engine finds in the handle's user data.
EngineFrame(ev) ==
    /\ ev \in {"message", "ping", "pong"}
    /\ engState \in {"open", "closing"} /\ userData /\ tickQueue = <<>>
    /\ engSeq < MaxEngineEvents
    /\ engSeq' = engSeq + 1
    /\ delivered' = Append(delivered, InvokeRec(slots, ev, engSeq + 1, "callback", external))
    /\ slots' = InvokeSlots(slots, ev)
    /\ lastCall' = NoCall
    /\ UNCHANGED <<variant, external, engState, userData, pendingSendCb, tickQueue, cbLog, closeCalled>>
    /\ UNCHANGED srvVars

\* onDisconnection of either group, reported by the engine as a loop event:
\* after a remote close, or completing a local close() or terminate().
EngineDisconnection ==
    /\ engState \in {"open", "closing"} /\ userData /\ tickQueue = <<>>
    /\ engState' = "dead"
    /\ engSeq' = engSeq + 1
    /\ external' = OnDisconnection(tickQueue, engSeq + 1)[1]
    /\ tickQueue' = OnDisconnection(tickQueue, engSeq + 1)[2]
    /\ userData' = OnDisconnection(tickQueue, engSeq + 1)[3]
    /\ closeCalled' = TRUE
    /\ lastCall' = NoCall
    /\ UNCHANGED <<variant, slots, pendingSendCb, delivered, cbLog>>
    /\ UNCHANGED srvVars

\* The engine has written a message and calls the wrapper send() gave it.
EngineSendComplete ==
    /\ pendingSendCb # <<>> /\ tickQueue = <<>>
    /\ tickQueue' = SendWrapper(Head(pendingSendCb), "callback")[1]
    /\ cbLog' = SendWrapper(Head(pendingSendCb), "callback")[2]
    /\ pendingSendCb' = Tail(pendingSendCb)
    /\ lastCall' = NoCall
    /\ UNCHANGED <<variant, external, slots, engState, userData, engSeq, delivered, closeCalled>>
    /\ UNCHANGED srvVars

\* One process.nextTick callback runs: the deferred close or error slot call,
\* or a send() completion callback.
Tick ==
    /\ tickQueue # <<>>
    /\ LET t == Head(tickQueue) IN
       /\ tickQueue' = Tail(tickQueue)
       /\ IF t.k = "sendcb"
          THEN /\ cbLog' = cbLog \cup {CbCall(t.cb, "tick", FALSE)}
               /\ UNCHANGED <<delivered, slots>>
          ELSE /\ delivered' = Append(delivered, InvokeRec(slots, t.k, t.n, "tick", external))
               /\ slots' = InvokeSlots(slots, t.k)
               /\ UNCHANGED cbLog
    /\ lastCall' = NoCall
    /\ UNCHANGED <<variant, external, engState, userData, engSeq, pendingSendCb, closeCalled>>
    /\ UNCHANGED srvVars

\* ---------------------------------------------------------------- Server

Servers == {"A", "B"}
Reqs == 1..NumReqs

\* Key lengths of a request's sec-websocket-key header; 0 is a missing header.
KeyLengths == {0, KEY_LENGTH - 1, KEY_LENGTH}

\* new Server(options): the fields after the constructor has run. With an http
\* server the constructor installs the newListener hook and then registers its
\* own upgrade listener, which runs the hook.
NewServer(o) ==
    [serverGroup |-> TRUE,
     upgradeCallback |-> "noop",
     upgradeListener |-> ~o.noServer,
     httpServer |-> ~o.noServer,
     attached |-> ~o.noServer,
     listening |-> ~o.noServer,
     lastUpgradeListener |-> o.noServer,
     otherUpgradeListener |-> FALSE,
     view |-> FALSE,
     passedHttpServer |-> o.server,
     path |-> o.path,
     verify |-> o.verify,
     groupCloses |-> 0,
     timers |-> 0]

\* The options a Server can be built with.
Options ==
    {o \in [noServer : BOOLEAN, server : BOOLEAN, path : BOOLEAN,
            verify : {"none", "sync", "async"}] :
        o.noServer => (~o.server /\ ~o.path /\ o.verify = "none")}

\* What the last call of a Server method did: the server and its fields before
\* the call, the engine entry it called on the group ("none" if it called
\* none), what it passed as the group ("handle", or "null" for a serverGroup
\* that is null) and whether the call threw. Every other action resets it.
SrvCall(op, s, eng, group, threw) ==
    [op |-> op, server |-> s, before |-> srv[s], eng |-> eng, group |-> group,
     threw |-> threw]

NoSrvCall ==
    [op |-> "none", server |-> "A", before |-> NewServer(CHOOSE o \in Options : o.noServer),
     eng |-> "none", group |-> "none", threw |-> FALSE]

\* The value of `this.serverGroup` passed to an engine entry.
GroupArg(sv) == IF sv.serverGroup THEN "handle" ELSE "null"

IdleReq ==
    [phase |-> "idle", server |-> "A", native |-> FALSE, keyLen |-> 0, handle |-> FALSE,
     pathOk |-> FALSE, cb |-> "noop", resp |-> "none", supplied |-> FALSE,
     sock |-> "open", ticket |-> FALSE]

\* The attributes an arriving request can have on server s: an engine-native
\* socket or a transport socket (with or without a handle, with a key header
\* of some length), and a path the filter accepts or not. Attributes the code
\* never reads for the request are fixed. sock is the state of the request's
\* socket in the http layer ("native": the socket is the engine's), ticket
\* whether native.transfer made a ticket for it.
Arrivals(s) ==
    {rq \in [phase : {"received"}, server : {s}, native : BOOLEAN, keyLen : KeyLengths,
             handle : BOOLEAN, pathOk : BOOLEAN, cb : {"noop"}, resp : {"none"},
             supplied : {FALSE}, sock : {"open", "native"}, ticket : {FALSE}] :
        /\ rq.native = (rq.sock = "native")
        /\ rq.native => (rq.keyLen = KEY_LENGTH /\ rq.handle)
        /\ ~srv[s].path => rq.pathOk}

\* A handleUpgrade whose engine upgrade is not guarded by the group handle.
GroupPresentAlways(sv) == TRUE

\* `if (this.serverGroup)` around the engine upgrade call, in handleUpgrade
\* and in the close handler it puts on the socket.
GroupPresent(sv) == sv.serverGroup

\* abortConnection(socket, code, name): the response line written to the socket
AbortConnection(rq, code, name) ==
    [rq EXCEPT !.phase = "aborted", !.resp = code \o " " \o name, !.sock = "ended"]

\* handleUpgrade(request, socket, upgradeHead, callback), the branch of an
\* engine-native socket: with a group, _upgradeReq and _upgradeCallback are
\* assigned and the native.upgrade call then reads secKey, which is declared
\* in the other branch only (a ReferenceError).
HandleUpgradeNative(r, rq, cb) ==
    IF GroupPresent(srv[rq.server])
    THEN /\ upgradeReq' = r
         /\ srv' = [srv EXCEPT ![rq.server].upgradeCallback = cb]
         /\ reqs' = [reqs EXCEPT ![r] = [rq EXCEPT !.phase = "threw", !.cb = cb]]
    ELSE /\ reqs' = [reqs EXCEPT ![r] = [rq EXCEPT !.phase = "dropped", !.cb = cb]]
         /\ UNCHANGED <<upgradeReq, srv>>

\* A validity test that forgets `secKey.length == 24`.
TransportValidAnyLength(rq) == rq.handle /\ rq.keyLen # 0

\* handleUpgrade, the other branch:
\* `if (socketHandle && secKey && secKey.length == 24)` a ticket is made and a
\* close handler is put on the socket; in every case `socket.destroy()`.
TransportValid(rq) == rq.handle /\ rq.keyLen # 0 /\ rq.keyLen = KEY_LENGTH

\* A handleUpgrade that forgets `socket.destroy()`.
SocketLeftOpen(rq) == rq.sock

\* `socket.destroy()` at the end of the branch: the state of the socket then.
SocketAfterHandleUpgrade(rq) == "destroyed"

HandleUpgradeSocket(r, rq, cb) ==
    /\ reqs' = [reqs EXCEPT ![r] =
                   [rq EXCEPT !.phase = IF TransportValid(rq) THEN "transferred" ELSE "destroyed",
                              !.ticket = TransportValid(rq),
                              !.sock = SocketAfterHandleUpgrade(rq),
                              !.cb = cb]]
    /\ UNCHANGED <<upgradeReq, srv>>

HandleUpgrade(r, rq, cb) ==
    IF rq.native THEN HandleUpgradeNative(r, rq, cb) ELSE HandleUpgradeSocket(r, rq, cb)

\* The upgrade listener: the path filter, then verifyClient, then
\* handleUpgrade with emitConnection. allow is the answer of a synchronous
\* verifyClient.
UpgradeListener(r, rq, allow) ==
    LET s == rq.server IN
    IF ~srv[s].path \/ rq.pathOk
    THEN IF srv[s].verify = "async"
         THEN /\ reqs' = [reqs EXCEPT ![r] = [rq EXCEPT !.phase = "verifying"]]
              /\ UNCHANGED <<upgradeReq, srv>>
         ELSE IF srv[s].verify = "sync" /\ ~allow
              THEN /\ reqs' = [reqs EXCEPT ![r] =
                                  AbortConnection(rq, "400", "Client verification failed")]
                   /\ UNCHANGED <<upgradeReq, srv>>
              ELSE HandleUpgrade(r, rq, "emitConnection")
    ELSE IF srv[s].lastUpgradeListener
         THEN /\ reqs' = [reqs EXCEPT ![r] = AbortConnection(rq, "400", "URL not supported")]
              /\ UNCHANGED <<upgradeReq, srv>>
         ELSE /\ reqs' = [reqs EXCEPT ![r] = [rq EXCEPT !.phase = "ignored"]]
              /\ UNCHANGED <<upgradeReq, srv>>

\* The http server emits 'upgrade' for a new request. Requests are numbered in
\* the order they arrive.
UpgradeRequest(r, s, rq, allow) ==
    /\ reqs[r].phase = "idle"
    /\ \A q \in Reqs : q < r => reqs[q].phase # "idle"
    /\ srv[s].attached
    /\ rq \in Arrivals(s)
    /\ srv[s].verify # "sync" => allow
    /\ UpgradeListener(r, rq, allow)
    /\ srvCall' = NoSrvCall
    /\ UNCHANGED <<engPending, connEvents>>
    /\ UNCHANGED connVars

\* The callback handed to an asynchronous verifyClient is called with
\* (result, code, name); supplied says whether code and name were given (401
\* and 'Unauthorized' stand for a code and a name the predicate gives), and
\* the request keeps whether they were.
VerifyCallback(r, result, supplied) ==
    /\ reqs[r].phase = "verifying"
    /\ result => ~supplied
    /\ IF result
       THEN HandleUpgrade(r, reqs[r], "emitConnection")
       ELSE /\ reqs' = [reqs EXCEPT ![r] =
                           IF supplied
                           THEN AbortConnection([reqs[r] EXCEPT !.supplied = TRUE],
                                                "401", "Unauthorized")
                           ELSE AbortConnection(reqs[r], "undefined", "undefined")]
            /\ UNCHANGED <<upgradeReq, srv>>
    /\ srvCall' = NoSrvCall
    /\ UNCHANGED <<engPending, connEvents>>
    /\ UNCHANGED connVars

\* emitConnection(ws): `this.emit('connection', ws, _upgradeReq)`. by is the
\* request whose socket the engine made the connection from.
EmitConnection(s, by, req) == [server |-> s, by |-> by, req |-> req]

\* An onConnection that forgets `this._upgradeCallback(webSocket)`.
OnConnectionNoCallback(s, by, cb, req) ==
    /\ connEvents' = connEvents
    /\ upgradeReq' = NULL

\* The group's onConnection callback: a WebSocket is built around the handle,
\* `this._upgradeCallback(webSocket)` runs, then `_upgradeReq = null`.
\* cb and req are _upgradeCallback and _upgradeReq as they are when it runs.
OnConnection(s, by, cb, req) ==
    /\ connEvents' = IF cb = "emitConnection"
                     THEN Append(connEvents, EmitConnection(s, by, req))
                     ELSE connEvents
    /\ upgradeReq' = NULL

\* The close handler handleUpgrade put on the socket, run when the destroyed
\* socket emits 'close'. The engine reports the new connection from inside
\* native.upgrade (engineInline) or as a later loop event.
SocketClose(r, engineInline) ==
    /\ reqs[r].phase = "transferred"
    /\ LET s == reqs[r].server IN
       IF GroupPresent(srv[s])
       THEN /\ srv' = [srv EXCEPT ![s].upgradeCallback = reqs[r].cb]
            /\ IF engineInline
               THEN /\ OnConnection(s, r, reqs[r].cb, r)
                    /\ reqs' = [reqs EXCEPT ![r].phase = "connected", ![r].sock = "closed"]
                    /\ UNCHANGED engPending
               ELSE /\ upgradeReq' = r
                    /\ engPending' = Append(engPending, [server |-> s, by |-> r])
                    /\ reqs' = [reqs EXCEPT ![r].phase = "upgraded", ![r].sock = "closed"]
                    /\ UNCHANGED connEvents
       ELSE /\ engineInline = FALSE
            /\ reqs' = [reqs EXCEPT ![r].phase = "abandoned", ![r].sock = "closed"]
            /\ UNCHANGED <<srv, upgradeReq, engPending, connEvents>>
    /\ srvCall' = NoSrvCall
    /\ UNCHANGED connVars

\* The engine reports, as a loop event, a connection it made earlier.
EngineConnectionReport ==
    /\ engPending # <<>>
    /\ LET e == Head(engPending) IN
       /\ OnConnection(e.server, e.by, srv[e.server].upgradeCallback, upgradeReq)
       /\ reqs' = [reqs EXCEPT ![e.by].phase = "connected"]
       /\ srvCall' = NoSrvCall
    /\ engPending' = Tail(engPending)
    /\ UNCHANGED srv
    /\ UNCHANGED connVars

\* native.server.group.close(group): the engine closes the group; connections
\* of the group it has not reported yet are not reported any more.
GroupClose(pending, s) == SelectSeq(pending, LAMBDA e : e.server # s)

\* A close(cb) without the `if (this.serverGroup)` around the group's close.
ServerAfterCloseUnguarded(sv, withCb) ==
    [sv EXCEPT
        !.attached = IF sv.upgradeListener /\ sv.httpServer THEN FALSE ELSE @,
        !.listening = IF sv.upgradeListener /\ sv.httpServer /\ ~sv.passedHttpServer
                      THEN FALSE ELSE @,
        !.groupCloses = @ + 1,
        !.serverGroup = FALSE,
        !.timers = IF withCb THEN @ + 1 ELSE @]

\* A close(cb) that also drops the handles of the server's Connections.
HandleAfterServerCloseDropped(ext) == NULL

\* close(cb) assigns nothing of a WebSocket: the handle an open Connection of
\* the server has after the call, given the one it had.
HandleAfterServerClose(ext) == ext

\* close(cb): the fields of the Server after the call
ServerAfterClose(sv, withCb) ==
    [sv EXCEPT
        !.attached = IF sv.upgradeListener /\ sv.httpServer THEN FALSE ELSE @,
        !.listening = IF sv.upgradeListener /\ sv.httpServer /\ ~sv.passedHttpServer
                      THEN FALSE ELSE @,
        !.groupCloses = IF sv.serverGroup THEN @ + 1 ELSE @,
        !.serverGroup = FALSE,
        !.timers = IF withCb THEN @ + 1 ELSE @]

ServerClose(s, withCb) ==
    /\ withCb => srv[s].timers < MaxTimers
    /\ srv' = [srv EXCEPT ![s] = ServerAfterClose(srv[s], withCb)]
    /\ engPending' = IF srv[s].serverGroup THEN GroupClose(engPending, s) ELSE engPending
    /\ reqs' = [r \in Reqs |->
                  IF srv[s].serverGroup /\ reqs[r].phase = "upgraded" /\ reqs[r].server = s
                  THEN [reqs[r] EXCEPT !.phase = "discarded"] ELSE reqs[r]]
    /\ srvCall' = IF srv[s].serverGroup
                  THEN SrvCall("close", s, "server.group.close", GroupArg(srv[s]), FALSE)
                  ELSE SrvCall("close", s, "none", "none", FALSE)
    /\ UNCHANGED <<upgradeReq, connEvents>>
    /\ external' = HandleAfterServerClose(external)
    /\ UNCHANGED <<variant, slots, engState, userData, engSeq, pendingSendCb,
                   tickQueue, delivered, cbLog, lastCall, closeCalled>>

\* broadcast(message, options) and startAutoPing(interval, userMessage):
\* `if (this.serverGroup) native.server.group.<entry>(this.serverGroup, ...)`
GuardedGroupCall(op, s) ==
    /\ srvCall' = IF srv[s].serverGroup
                  THEN SrvCall(op, s, "server.group." \o op, GroupArg(srv[s]), FALSE)
                  ELSE SrvCall(op, s, "none", "none", FALSE)
    /\ UNCHANGED <<srv, reqs, upgradeReq, engPending, connEvents>>
    /\ UNCHANGED connVars

Broadcast(s) == GuardedGroupCall("broadcast", s)

StartAutoPing(s) == GuardedGroupCall("startAutoPing", s)

\* get clients(): with a group, getSize is called and a view {length, forEach}
\* is returned, which the caller keeps; without one, undefined is returned.
Clients(s) ==
    /\ srvCall' = IF srv[s].serverGroup
                  THEN SrvCall("clients", s, "server.group.getSize", GroupArg(srv[s]), FALSE)
                  ELSE SrvCall("clients", s, "none", "none", FALSE)
    /\ srv' = [srv EXCEPT ![s].view = @ \/ srv[s].serverGroup]
    /\ UNCHANGED <<reqs, upgradeReq, engPending, connEvents>>
    /\ UNCHANGED connVars

\* forEach(cb) of a view the caller kept:
\* `(cb) => {native.server.group.forEach(this.serverGroup, cb)}` reads
\* this.serverGroup when it is called. What the engine does with null in the
\* place of a group (it may throw) is the engine's.
ViewForEach(s, engineThrows) ==
    /\ srv[s].view
    /\ engineThrows => ~srv[s].serverGroup
    /\ srvCall' = SrvCall("forEach", s, "server.group.forEach", GroupArg(srv[s]), engineThrows)
    /\ UNCHANGED <<srv, reqs, upgradeReq, engPending, connEvents>>
    /\ UNCHANGED connVars

\* The owner of the http server registers an upgrade listener of its own after
\* the Server was built: the newListener hook runs,
\* `this._lastUpgradeListener = false`.
AddUpgradeListener(s) ==
    /\ srv[s].httpServer
    /\ srv' = [srv EXCEPT ![s].lastUpgradeListener = FALSE,
                          ![s].otherUpgradeListener = TRUE]
    /\ srvCall' = NoSrvCall
    /\ UNCHANGED <<reqs, upgradeReq, engPending, connEvents>>
    /\ UNCHANGED connVars

\* `setTimeout(cb, 20000)` of close(cb) expires
CloseTimer(s) ==
    /\ srv[s].timers > 0
    /\ srv' = [srv EXCEPT ![s].timers = @ - 1]
    /\ srvCall' = NoSrvCall
    /\ UNCHANGED <<reqs, upgradeReq, engPending, connEvents>>
    /\ UNCHANGED connVars

\* ---------------------------------------------------------------- specifications

\* A Connection right after construction: a server-side WebSocket is built by
\* onConnection around an open handle; a WebSocketClient is built without a
\* handle while native.connect is under way.
InitConnection(v) ==
    /\ variant = v
    /\ external = IF v = SERVER THEN HANDLE ELSE NULL
    /\ slots = NewSlots(v)
    /\ engState = IF v = SERVER THEN "open" ELSE "connecting"
    /\ userData = TRUE
    /\ engSeq = 0
    /\ pendingSendCb = <<>>
    /\ tickQueue = <<>>
    /\ delivered = <<>>
    /\ cbLog = {}
    /\ lastCall = NoCall
    /\ closeCalled = FALSE

\* Servers right after construction, all built with the same options.
InitServers(o) ==
    /\ srv = [s \in Servers |-> NewServer(o)]
    /\ reqs = [r \in Reqs |-> IdleReq]
    /\ upgradeReq = NULL
    /\ engPending = <<>>
    /\ connEvents = <<>>
    /\ srvCall = NoSrvCall

Init ==
    /\ \E v \in {SERVER, CLIENT} : InitConnection(v)
    /\ InitServers(CHOOSE o \in Options : o.noServer)

\* Event registration and delivery on one Connection.
NextListen ==
    \/ \E ev \in Events, f \in Callbacks : On(ev, f)
    \/ \E ev \in Events, f \in Callbacks : Once(ev, f)
    \/ \E ev \in Events \cup {NoEvent} : RemoveAllListeners(ev)
    \/ \E ev \in Events, f \in Callbacks : RemoveListener(ev, f)

SpecListen == Init /\ [][NextListen]_vars

\* The life of one Connection as its owner sends on it and closes it: API
\* calls, engine callbacks and ticks.
NextSend ==
    \/ \E optFn \in BOOLEAN, cb3 \in BOOLEAN, inl \in BOOLEAN : Send(optFn, cb3, inl)
    \/ Ping
    \/ \E inl \in BOOLEAN : Close(inl)
    \/ \E inl \in BOOLEAN : Terminate(inl)
    \/ EngineConnection
    \/ EngineError
    \/ EngineDisconnection
    \/ EngineSendComplete
    \/ Tick

SpecSend == Init /\ [][NextSend]_vars

\* The events of one Connection reaching its handlers: registration, engine
\* callbacks, local close and terminate, and ticks.
NextEvents ==
    \/ \E ev \in {"message", "close"}, f \in Callbacks : On(ev, f)
    \/ \E ev \in {"message", "close"}, f \in Callbacks : Once(ev, f)
    \/ Send(FALSE, FALSE, FALSE)
    \/ \E inl \in BOOLEAN : Close(inl)
    \/ \E inl \in BOOLEAN : Terminate(inl)
    \/ EngineConnection
    \/ EngineError
    \/ \E ev \in {"message", "ping"} : EngineFrame(ev)
    \/ EngineDisconnection
    \/ Tick

SpecEvents == Init /\ [][NextEvents]_vars

\* One server with its own http server, built with or without a path filter
\* and a verifyClient of either kind.
InitServer ==
    /\ InitConnection(SERVER)
    /\ \E o \in Options : ~o.noServer /\ ~o.server /\ InitServers(o)

NextServer ==
    \/ \E r \in Reqs, allow \in BOOLEAN :
          \E rq \in Arrivals("A") : UpgradeRequest(r, "A", rq, allow)
    \/ \E r \in Reqs, result \in BOOLEAN, supplied \in BOOLEAN : VerifyCallback(r, result, supplied)
    \/ \E r \in Reqs, inl \in BOOLEAN : SocketClose(r, inl)
    \/ EngineConnectionReport
    \/ ServerClose("A", FALSE)

SpecServer == InitServer /\ [][NextServer]_vars

\* One server without an http server, with its own or with one passed to it,
\* closed with or without a callback while handshakes are in flight.
InitClose ==
    /\ InitConnection(SERVER)
    /\ \E o \in Options : ~o.path /\ o.verify = "none" /\ InitServers(o)

NextClose ==
    \/ \E r \in Reqs : \E rq \in Arrivals("A") : UpgradeRequest(r, "A", rq, TRUE)
    \/ \E r \in Reqs, inl \in BOOLEAN : SocketClose(r, inl)
    \/ EngineConnectionReport
    \/ \E withCb \in BOOLEAN : ServerClose("A", withCb)
    \/ CloseTimer("A")

SpecClose == InitClose /\ [][NextClose]_vars

\* Two servers of one process, built without a path filter or verifyClient.
InitShared ==
    /\ InitConnection(SERVER)
    /\ \E o \in Options : ~o.noServer /\ ~o.server /\ ~o.path /\ o.verify = "none" /\ InitServers(o)

NextShared ==
    \/ \E r \in Reqs, s \in Servers : \E rq \in Arrivals(s) : UpgradeRequest(r, s, rq, TRUE)
    \/ \E r \in Reqs, inl \in BOOLEAN : SocketClose(r, inl)
    \/ EngineConnectionReport
    \/ \E s \in Servers : ServerClose(s, FALSE)

SpecShared == InitShared /\ [][NextShared]_vars

\* One server with a path filter on its own http server, to which the owner
\* may add an upgrade listener of their own.
InitPath ==
    /\ InitConnection(SERVER)
    /\ \E o \in Options : ~o.noServer /\ ~o.server /\ o.path /\ o.verify = "none"
                            /\ InitServers(o)

NextPath ==
    \/ \E r \in Reqs : \E rq \in Arrivals("A") : UpgradeRequest(r, "A", rq, TRUE)
    \/ \E r \in Reqs, inl \in BOOLEAN : SocketClose(r, inl)
    \/ EngineConnectionReport
    \/ AddUpgradeListener("A")

SpecPath == InitPath /\ [][NextPath]_vars

\* An open Connection of a server that is used, and closed by its owner or by
\* the peer, while the server itself is closed.
InitOpen ==
    /\ InitConnection(SERVER)
    /\ \E o \in Options : ~o.noServer /\ ~o.server /\ ~o.path /\ o.verify = "none"
                            /\ InitServers(o)

NextOpen ==
    \/ \E f \in Callbacks : On("message", f)
    \/ Send(FALSE, FALSE, FALSE)
    \/ Ping
    \/ \E inl \in BOOLEAN : Close(inl)
    \/ \E inl \in BOOLEAN : Terminate(inl)
    \/ EngineFrame("message")
    \/ EngineDisconnection
    \/ Tick
    \/ ServerClose("A", FALSE)

SpecOpen == InitOpen /\ [][NextOpen]_vars

\* A WebSocketClient from its construction: its owner registers open and
\* error handlers and calls its methods while the engine connects, and the
\* engine confirms the connection or reports an error.
InitClient ==
    /\ InitConnection(CLIENT)
    /\ InitServers(CHOOSE o \in Options : o.noServer)

NextClient ==
    \/ \E ev \in {"open", "error"}, f \in Callbacks : On(ev, f)
    \/ \E cb3 \in BOOLEAN : Send(FALSE, cb3, FALSE)
    \/ Ping
    \/ \E inl \in BOOLEAN : Close(inl)
    \/ \E inl \in BOOLEAN : Terminate(inl)
    \/ EngineConnection
    \/ EngineError
    \/ EngineDisconnection
    \/ Tick

SpecClient == InitClient /\ [][NextClient]_vars

\* One-shot handlers on an open Connection: registrations with once() and
\* on(), and deliveries by the engine and by emit().
InitOnce ==
    /\ InitConnection(SERVER)
    /\ InitServers(CHOOSE o \in Options : o.noServer)

NextOnce ==
    \/ \E ev \in {"message", "ping"}, f \in Callbacks : Once(ev, f)
    \/ \E f \in Callbacks : On("ping", f)
    \/ Emit("ping")
    \/ \E ev \in {"message", "ping"} : EngineFrame(ev)

SpecOnce == InitOnce /\ [][NextOnce]_vars

\* One server whose owner uses the group operations and the clients view
\* while handshakes are in flight, before and after closing the server.
InitGroup ==
    /\ InitConnection(SERVER)
    /\ \E o \in Options : ~o.noServer /\ ~o.server /\ ~o.path /\ o.verify = "none"
                            /\ InitServers(o)

NextGroup ==
    \/ \E r \in Reqs : \E rq \in Arrivals("A") : UpgradeRequest(r, "A", rq, TRUE)
    \/ \E r \in Reqs, inl \in BOOLEAN : SocketClose(r, inl)
    \/ EngineConnectionReport
    \/ Broadcast("A")
    \/ StartAutoPing("A")
    \/ Clients("A")
    \/ \E thr \in BOOLEAN : ViewForEach("A", thr)
    \/ ServerClose("A", FALSE)

SpecGroup == InitGroup /\ [][NextGroup]_vars

\* ---------------------------------------------------------------- claims

\* The Connection was closed after it had a handle: close() or terminate()
\* found a handle (the engine is closing the socket), or the engine has
\* reported the disconnection.
ClosedAfterOpen == engState \in {"closing", "dead"}

\* A send() that found the Connection closed did what a closed send does: no
\* engine call, no exception, the 'not opened' error to the callback given as
\* third argument and to it alone.
ClosedSendOutcome ==
    /\ lastCall.eng = "none"
    /\ ~lastCall.threw
    /\ lastCall.inline = (IF lastCall.ev \in {"third", "both"} THEN "third" ELSE "none")
    /\ lastCall.inline = "third" => CbCall("third", "inline", TRUE) \in cbLog

C2_NeverInline == \A c \in cbLog : c.when = "tick"

\* C2 amended: a completion callback of a send() on an open Connection runs
\* from the tick queue only, never inside send() or inside an engine callback;
\* the callback of a send() on a closed Connection is called with the 'not
\* opened' error before send() returns.
C2_InlineOnlyNotOpened ==
    /\ \A c \in cbLog : IF c.err THEN c.when = "inline" /\ c.cb = "third" ELSE c.when = "tick"
    /\ (lastCall.op = "send" /\ lastCall.eng # "none") => lastCall.inline = "none"
    /\ (lastCall.op = "send" /\ lastCall.eng = "none" /\ lastCall.ev \in {"third", "both"})
          => CbCall("third", "inline", TRUE) \in cbLog

\* C2 witness: a completion callback has run from the tick queue after an open
\* send whose wrapper the engine called at once, and another was called with
\* the error inside a closed send.
C2_Witness ==
    /\ CbCall("opt", "tick", FALSE) \in cbLog
    /\ CbCall("third", "inline", TRUE) \in cbLog

\* The event slots a Connection of variant v has: the five common ones, and
\* error on the client variant.
HasSlot(v, ev) == ev \in Events5 \/ (ev = "error" /\ v = CLIENT)

\* A callback is registered in slot value sv.
Registered(sv) == sv.k \in {"fn", "once"}

\* C3 as stated: on() or once() for an event whose slot already holds a
\* callback throws the duplicate-listener error and leaves that callback in
\* place, and a call that does not throw has registered its callback (none is
\* silently dropped).
C3_DuplicateAlwaysThrows ==
    (lastCall.op \in {"on", "once"} /\ HasSlot(variant, lastCall.ev)) =>
        /\ Registered(lastCall.before) =>
              (lastCall.threw /\ slots[lastCall.ev] = lastCall.before)
        /\ ~lastCall.threw =>
              slots[lastCall.ev] = (IF lastCall.op = "on" THEN Fn(lastCall.f)
                                    ELSE OnceWrap(lastCall.f))

\* The call recorded in c removes the callback held by slot value sv of event
\* ev: removeListener(ev, cb) given the callback that was registered, or
\* removeAllListeners with that event name or with none.
Removes(c, ev, sv) ==
    \/ c.op = "removeListener" /\ c.ev = ev /\ c.f = sv.f
    \/ c.op = "removeAllListeners" /\ c.ev \in {ev, NoEvent}

\* on(ev, f) and once(ev, f) on slots s both succeed: neither throws and each
\* leaves its callback registered.
CanRegister(s, ev) ==
    \A f \in Callbacks :
        /\ ~OnThrows(variant, s, ev)
        /\ OnSlots(variant, s, ev, f)[ev] = Fn(f)
        /\ ~OnceThrows(s, ev)
        /\ OnceSlots(s, ev, f)[ev] = OnceWrap(f)

\* C4 as stated: every step that removes a registered callback, by
\* removeListener given that callback or by removeAllListeners, leaves the
\* event's slot such that a new on() or once() for the event succeeds; for
\* every slot, error on the client variant included.
C4_RemoveThenRegister ==
    [][\A ev \in Events :
          (HasSlot(variant, ev) /\ Registered(slots[ev]) /\ Removes(lastCall', ev, slots[ev]))
              => CanRegister(slots', ev)]_vars

\* ---- handshakes

\* The number of 'connection' events emitted for request r.
ConnectionEventsOf(r) == Cardinality({i \in DOMAIN connEvents : connEvents[i].by = r})

\* handleUpgrade has been called for request r: the path filter accepted it
\* and verifyClient, if there is one, allowed it.
ReachedHandleUpgrade(r) ==
    reqs[r].phase \in {"threw", "dropped", "transferred", "destroyed", "upgraded",
                       "connected", "abandoned", "discarded"}

\* Request r has a 24-character key and passed the path filter and verifyClient.
Acceptable(r) == reqs[r].keyLen = KEY_LENGTH /\ reqs[r].pathOk /\ ReachedHandleUpgrade(r)

\* The socket of request r is a transport socket with a handle.
OrdinarySocket(r) == ~reqs[r].native /\ reqs[r].handle

\* No code of the program is left to run for request r: handleUpgrade put no
\* close handler on the socket, or the handler has run and the engine has
\* reported the connection it made.
Settled(r) == reqs[r].phase \in {"threw", "dropped", "destroyed", "abandoned", "connected"}

C6_RequestOfItsHandshake ==
    \A i \in DOMAIN connEvents : connEvents[i].req = connEvents[i].by

\* handleUpgrade was called for request r on a socket that is not
\* engine-native, and the key header is missing or not 24 characters long.
InvalidKey(r) ==
    ~reqs[r].native /\ reqs[r].keyLen # KEY_LENGTH /\ ReachedHandleUpgrade(r)

\* C7: such a request is aborted: the socket is destroyed, no response is
\* written, no ticket is made, no engine upgrade call is made (none is pending
\* in the engine either) and no 'connection' event is emitted for it.
C7_InvalidKeyAborted ==
    \A r \in Reqs :
        InvalidKey(r) =>
            /\ reqs[r].phase = "destroyed"
            /\ reqs[r].resp = "none"
            /\ ConnectionEventsOf(r) = 0
            /\ \A i \in DOMAIN engPending : engPending[i].by # r

\* A request without a key header and one with a 23-character key on a socket
\* with a handle have both gone through handleUpgrade.
C7_Witness ==
    \E r1, r2 \in Reqs :
        /\ InvalidKey(r1) /\ reqs[r1].keyLen = 0
        /\ InvalidKey(r2) /\ reqs[r2].keyLen = KEY_LENGTH - 1 /\ reqs[r2].handle
        /\ reqs[r2].phase = "destroyed"

\* ---- event delivery

\* The positions of the slot calls for event ev in the delivery log.
DeliveriesOf(ev) == {i \in DOMAIN delivered : delivered[i].ev = ev}

\* The engine has reported the disconnection and the tick that calls the close
\* slot has run.
CloseDelivered ==
    engState = "dead" /\ \A i \in DOMAIN tickQueue : tickQueue[i].k # "close"

\* C8: slot calls happen in the order the engine observed the events (messages
\* in receipt order), no message is delivered after the close slot was called,
\* the close slot is called at most once, and exactly once when the engine has
\* reported the disconnection and its tick has run, also after a local close()
\* or terminate().
C8_OrderedCloseLastOnce ==
    /\ \A i, j \in DOMAIN delivered : i < j => delivered[i].n < delivered[j].n
    /\ \A i \in DeliveriesOf("close"), j \in DeliveriesOf("message") : j < i
    /\ Cardinality(DeliveriesOf("close")) <= 1
    /\ CloseDelivered => Cardinality(DeliveriesOf("close")) = 1

\* close() or terminate() was called locally, the engine then delivered a
\* message to a registered handler and reported the disconnection, and the
\* registered close handler has run after the message handler.
C8_Witness ==
    /\ closeCalled /\ CloseDelivered
    /\ \E i, j \in DOMAIN delivered :
          /\ i < j
          /\ delivered[i].ev = "message" /\ delivered[i].to # 0
          /\ delivered[i].ready = CLOSED
          /\ delivered[j].ev = "close" /\ delivered[j].to # 0

\* C9: the close slot is called from a tick, never inside the engine's
\* callback, with the handle absent (readyState CLOSED) and the user data
\* cleared; once the engine has reported the disconnection the Connection has
\* no handle and the engine no user data for it, and every API call that
\* reaches the engine does so while the engine still has the socket open.
C9_CloseDeferredHandleGone ==
    /\ \A i \in DeliveriesOf("close") :
          /\ delivered[i].src = "tick"
          /\ delivered[i].ready = CLOSED
          /\ ~delivered[i].assoc
    /\ engState = "dead" => (external = NULL /\ ~userData)
    /\ \A i \in DOMAIN tickQueue : tickQueue[i].k = "close" => engState = "dead"
    /\ lastCall.live

\* The engine reported the disconnection of a Connection nobody had closed
\* locally, the registered close handler ran from the tick, and a send() issued
\* after it made no engine call.
C9_Witness ==
    /\ \E i \in DeliveriesOf("close") : delivered[i].to # 0 /\ delivered[i].src = "tick"
    /\ engState = "dead"
    /\ lastCall.op = "send" /\ lastCall.eng = "none"

\* ---- Server.close()

\* C10: a Server.close() on a server that was closed before closes no group
\* (the group was closed exactly once), and leaves the Server, its http
\* server, the handshakes in flight, the engine's pending connections and the
\* emitted events as they were; only the timer of a callback it was given is
\* added.
C10_SecondCloseIsNoOp ==
    [][\A s \in Servers :
          (srvCall'.op = "close" /\ srvCall'.server = s /\ ~srv[s].serverGroup) =>
              /\ srv'[s].groupCloses = 1
              /\ [srv'[s] EXCEPT !.timers = srv[s].timers] = srv[s]
              /\ UNCHANGED <<reqs, engPending, connEvents, upgradeReq>>]_vars

\* Server.close() has just been called on a server with an http server whose
\* group was released by an earlier call, while a handshake waits for its
\* socket's close event.
C10_Witness ==
    /\ srvCall.op = "close" /\ ~srvCall.before.serverGroup
    /\ srvCall.before.httpServer
    /\ srv[srvCall.server].groupCloses = 1
    /\ \E r \in Reqs : reqs[r].phase = "transferred"

\* ---- the path filter

\* The upgrade listener has just run for request r, whose path the filter of
\* its server does not accept.
PathMismatchHandled(r) ==
    reqs[r].phase = "idle" /\ reqs'[r].phase # "idle" /\ ~reqs'[r].pathOk

\* C11: a request whose path does not match is answered `400 URL not
\* supported` when no other upgrade listener was registered after the
\* server's, and is left alone when one was; a server that is the only
\* upgrade listener always answers the 400.
C11_MismatchAbortsWhenLast ==
    [][\A r \in Reqs :
          PathMismatchHandled(r) =>
              IF srv[reqs'[r].server].otherUpgradeListener
              THEN reqs'[r].phase = "ignored" /\ reqs'[r].resp = "none"
              ELSE reqs'[r].phase = "aborted" /\ reqs'[r].resp = "400 URL not supported"]_vars

\* ---- verifyClient

\* verifyClient rejected request r: the path filter accepted the request and
\* the handshake was aborted.
Rejected(r) == reqs[r].phase = "aborted" /\ reqs[r].pathOk

\* C12: a rejected request is answered with the code and name the predicate
\* supplied, and with `400 Client verification failed` when it supplied none,
\* for the synchronous and the asynchronous predicate; it does not reach
\* handleUpgrade and gets no connection.
C12_RejectAnswered ==
    \A r \in Reqs :
        Rejected(r) =>
            /\ reqs[r].resp = IF reqs[r].supplied THEN "401 Unauthorized"
                              ELSE "400 Client verification failed"
            /\ ~ReachedHandleUpgrade(r)
            /\ ConnectionEventsOf(r) = 0

\* ---- handshakes and Server.close()

\* The 'connection' events emitted on server s, in a log of them.
EventsOn(log, s) == SelectSeq(log, LAMBDA e : e.server = s)

\* The engine upgrade call has been made for request r.
UpgradeCalled(rq) == rq.phase \in {"upgraded", "connected", "discarded"}

\* C13: once Server.close() has returned on a server, no engine upgrade call
\* is made for any of its handshakes, the engine gets no connection of it to
\* report and no 'connection' event is emitted on it, whatever handshakes were
\* waiting for a verifyClient verdict or for their socket's close event.
C13_NoJoinAfterClose ==
    [][\A s \in Servers :
          ~srv[s].serverGroup =>
              /\ \A r \in Reqs :
                    (reqs'[r].server = s /\ UpgradeCalled(reqs'[r])) => UpgradeCalled(reqs[r])
              /\ Len(EventsOn(engPending', s)) <= Len(EventsOn(engPending, s))
              /\ EventsOn(connEvents', s) = EventsOn(connEvents, s)]_vars

\* The server is closed; handleUpgrade ran after that for an engine-native
\* socket whose request had waited for the asynchronous verifyClient, and the
\* close handler of another request's socket ran after it too; neither made a
\* connection.
C13_Witness ==
    /\ ~srv["A"].serverGroup
    /\ \E r1, r2 \in Reqs :
          /\ reqs[r1].phase = "dropped" /\ reqs[r2].phase = "abandoned"
          /\ ConnectionEventsOf(r1) = 0 /\ ConnectionEventsOf(r2) = 0

\* ---- open Connections and Server.close()

\* C14: Server.close() changes nothing of an open Connection; as long as the
\* Connection was not closed itself (by close(), terminate() or the peer) its
\* handle is present and readyState is OPEN, with the server open or closed,
\* and every send, ping, close and terminate on it calls the engine.
C14_ServerCloseLeavesConnections ==
    [][/\ (srvCall'.op = "close" /\ srvVars' # srvVars) => UNCHANGED connVars
       /\ ~closeCalled' => (external' = HANDLE /\ readyState' = OPEN)
       /\ (~closeCalled /\ lastCall'.op \in {"send", "ping", "close", "terminate"}) =>
              lastCall'.eng = EngineEntry(SERVER, IF lastCall'.op = "ping" THEN "send"
                                                  ELSE lastCall'.op)]_vars

\* The server is closed and a send() made after that on a Connection with a
\* registered message handler called the engine.
C14_Witness ==
    /\ ~srv["A"].serverGroup /\ srv["A"].groupCloses = 1
    /\ lastCall.op = "send" /\ lastCall.eng = EngineEntry(SERVER, "send")
    /\ readyState = OPEN /\ Registered(slots["message"])

\* ---- engine-native sockets

\* C15: handleUpgrade with an engine-native socket on an open server completes
\* normally, with the engine upgrade call made for the request; only on a
\* closed server it does nothing.
C15_NativeUpgradeCompletes ==
    \A r \in Reqs :
        (reqs[r].native /\ ReachedHandleUpgrade(r)) =>
            \/ UpgradeCalled(reqs[r])
            \/ reqs[r].phase = "dropped" /\ ~srv[reqs[r].server].serverGroup

\* ---- transfer tickets

\* handleUpgrade made a ticket for request r with native.transfer.
TicketCreated(r) == reqs[r].ticket

\* The destroyed socket of request r has emitted 'close' and the handler
\* handleUpgrade put on it has run.
SocketClosed(r) == TicketCreated(r) /\ reqs[r].phase # "transferred"

\* C16: every ticket is consumed by an engine upgrade call once the socket's
\* close event has come, whatever happened since the ticket was made.
C16_TicketConsumed ==
    \A r \in Reqs : SocketClosed(r) => UpgradeCalled(reqs[r])

\* ---- ownership of the socket

\* The http layer can still use the socket of request r: it has neither
\* destroyed it nor seen it close.
TransportUsable(r) == reqs[r].sock \in {"open", "ended"}

\* The handshake of request r ended without an engine upgrade call because of
\* an invalid key, a rejected verification or a path mismatch.
EndedWithoutUpgrade(r) ==
    \/ reqs[r].phase \in {"aborted", "ignored"}
    \/ reqs[r].phase = "destroyed" /\ reqs[r].keyLen # KEY_LENGTH

\* C17: for a transport socket, the engine upgrade call is made only after
\* the socket was destroyed and has emitted 'close'; a socket for which a
\* ticket exists is not usable by the http layer; and a handshake that ended
\* on an invalid key, a rejection or a path mismatch has handed nothing to the
\* engine: no ticket, no upgrade call, no connection waiting in the engine.
C17_SingleOwner ==
    \A r \in Reqs :
        ~reqs[r].native =>
            /\ UpgradeCalled(reqs[r]) => reqs[r].sock = "closed"
            /\ TicketCreated(r) => ~TransportUsable(r)
            /\ EndedWithoutUpgrade(r) =>
                  /\ ~TicketCreated(r) /\ ~UpgradeCalled(reqs[r])
                  /\ \A i \in DOMAIN engPending : engPending[i].by # r

\* One handshake was rejected by verifyClient with its socket still in the
\* http layer, and another went through: its socket was destroyed, closed,
\* and the engine made the connection from the ticket.
C17_Witness ==
    \E r1, r2 \in Reqs :
        /\ reqs[r1].phase = "aborted" /\ reqs[r1].sock = "ended" /\ ~TicketCreated(r1)
        /\ reqs[r2].phase = "connected" /\ reqs[r2].sock = "closed" /\ TicketCreated(r2)

\* ---- a client Connection before it is open

\* The engine has not confirmed the connection of the client: it is still
\* connecting, or it reported a connection error.
NotConfirmed == engState \in {"connecting", "failed"}

\* C18: a client Connection has no handle and reads CLOSED until the engine
\* confirms it, and send, ping, close and terminate call no engine entry then;
\* the open slot is called inside the engine's callback with the handle
\* attached (readyState OPEN); after a connection error the handle is never
\* attached and the error slot is called from a tick, once.
C18_ClientHandleOnConfirm ==
    /\ NotConfirmed => (external = NULL /\ readyState = CLOSED)
    /\ (NotConfirmed /\ lastCall.op \in {"send", "ping", "close", "terminate"}) =>
           lastCall.eng = "none"
    /\ \A i \in DeliveriesOf("open") :
           delivered[i].src = "callback" /\ delivered[i].ready = OPEN
    /\ \A i \in DeliveriesOf("error") :
           delivered[i].src = "tick" /\ delivered[i].ready = CLOSED
    /\ \A i \in DOMAIN tickQueue : tickQueue[i].k = "error" => engState = "failed"
    /\ DeliveriesOf("error") # {} => engState = "failed"
    /\ (engState = "failed" /\ tickQueue = <<>>) => Cardinality(DeliveriesOf("error")) = 1

\* A client whose owner called send() with a callback while it was connecting
\* (no engine call) got its registered open handler called by the engine's
\* confirmation, and a send() after that called the engine.
C18_Witness ==
    /\ variant = CLIENT
    /\ CbCall("third", "inline", TRUE) \in cbLog
    /\ \E i \in DeliveriesOf("open") : delivered[i].to # 0 /\ delivered[i].ready = OPEN
    /\ lastCall.op = "send" /\ lastCall.eng = EngineEntry(CLIENT, "send")

\* ---- once()

\* This step called the slot of event ev, which held a once() closure.
OnceDelivery(ev) ==
    /\ Len(delivered') = Len(delivered) + 1
    /\ delivered'[Len(delivered')].ev = ev
    /\ slots[ev].k = "once"

\* C19: the delivery of an event to a callback registered with once() frees
\* the slot at once (so the callback is not called again, and the next on() or
\* once() for the event succeeds) and hands the callback the arguments a
\* callback registered with on() gets (message, close, ping and pong carry
\* arguments).
C19_OnceDeliversLikeOn ==
    [][\A ev \in Events5 :
          OnceDelivery(ev) =>
              /\ delivered'[Len(delivered')].to = slots[ev].f
              /\ slots'[ev] = NOOP
              /\ CanRegister(slots', ev)
              /\ ev \in {"message", "close", "ping", "pong"} => delivered'[Len(delivered')].args]_vars

\* ---- the duplicate-listener error

\* C20: on() and once() for open, message, close, ping or pong throw the
\* duplicate-listener error only when a callback was registered for the event;
\* on a Connection of either variant with nothing registered for the event,
\* the registration succeeds.
C20_ThrowsOnlyWhenRegistered ==
    (lastCall.op \in {"on", "once"} /\ lastCall.ev \in Events5) =>
        /\ lastCall.threw => Registered(lastCall.before)
        /\ ~Registered(lastCall.before) => Registered(slots[lastCall.ev])

\* ---- the released group handle

\* C21: once a server is closed, no call of broadcast, startAutoPing, the
\* clients getter or a clients view's forEach, and no later Server.close(),
\* calls an engine entry that takes the group, and none throws; and
\* handleUpgrade and the socket close handlers of earlier handshakes make no
\* engine upgrade call and do not throw.
C21_NoGroupCallAfterClose ==
    [][\A s \in Servers :
          ~srv[s].serverGroup =>
              /\ (srvCall'.op # "none" /\ srvCall'.server = s /\ srvCall' # srvCall) =>
                    (srvCall'.eng = "none" /\ srvCall'.group = "none" /\ ~srvCall'.threw)
              /\ \A r \in Reqs :
                    (reqs'[r].server = s /\ reqs'[r] # reqs[r]) =>
                        reqs'[r].phase \notin {"upgraded", "connected", "threw"}]_vars

====
